---- MODULE Spec2Model ----
(***************************************************************************)
(* rhythmdbsync: synchronisation of ratings and play counts between the    *)
(* Rhythmbox library (an XML tree of <entry type="song"> elements) and the *)
(* POPM frames of the audio files.                                         *)
(*                                                                         *)
(* Two specifications:                                                     *)
(*   SpecRec  calls on one Audio object or on one Song object, in any      *)
(*            order and with any arguments;                                *)
(*   Spec     main(): the pass over the songs of the library.  The pass is *)
(*            run twice on the same library and files, once for each value *)
(*            of the --dry option; run[d] is the execution with dry = d.   *)
(***************************************************************************)
EXTENDS Integers, Sequences, FiniteSets, TLC

VARIABLES kind, audio, element, call, config, run

vars == <<kind, audio, element, call, config, run>>

objvars == <<kind, audio, element, call>>

(***************************************************************************)
(* Bounds                                                                  *)
(***************************************************************************)
NumSongs == 2

MaxChildren == 2

(***************************************************************************)
(* Python values                                                           *)
(***************************************************************************)
\* None and the empty string are both falsy in "if not value"; str() never
\* yields either, so one value stands for both.
None == <<>>

NoEmail == "None"

Rhythmbox == "Rhythmbox"

DigitChars == <<"0", "1", "2", "3", "4", "5", "6", "7", "8", "9">>

DigitVal(c) == (CHOOSE k \in 1..10 : DigitChars[k] = c) - 1

RECURSIVE str(_)
str(n) == IF n < 10 THEN <<DigitChars[n + 1]>>
          ELSE Append(str(n \div 10), DigitChars[(n % 10) + 1])

RECURSIVE int(_)
int(t) == IF Len(t) = 1 THEN DigitVal(t[1])
          ELSE 10 * int(SubSeq(t, 1, Len(t) - 1)) + DigitVal(t[Len(t)])

(***************************************************************************)
(* Rating scale conversion                                                 *)
(***************************************************************************)
ratings == [s \in 0..5 |-> CASE s = 0 -> 0 [] s = 1 -> 1 [] s = 2 -> 64
                             [] s = 3 -> 128 [] s = 4 -> 196 [] s = 5 -> 255]

\* stars2rating raises ValueError exactly when the argument is not a key.
stars2rating_raises(stars) == stars \notin DOMAIN ratings

stars2rating(stars) == ratings[stars]

\* rating2stars raises ValueError exactly when rating > 255.
rating2stars_raises(rating) == rating > 255

rating2stars(rating) ==
    IF rating < 1 THEN 0
    ELSE IF rating < 32 THEN 1
    ELSE IF rating < 96 THEN 2
    ELSE IF rating < 160 THEN 3
    ELSE IF rating < 224 THEN 4
    ELSE 5

(***************************************************************************)
(* Popularities: the POPM frames of a tag, a list of frames                *)
(* [email, rating, count] in file order.                                   *)
(***************************************************************************)
Emails(fs) == {fs[i].email : i \in 1..Len(fs)}

FrameOf(fs, email) == fs[CHOOSE i \in 1..Len(fs) : fs[i].email = email]

Popularities_set_foreign(fs, rating, play_count) ==
    IF fs # <<>>
    THEN [fs EXCEPT ![1] = [email |-> fs[1].email, rating |-> rating, count |-> play_count]]
    ELSE <<[email |-> Rhythmbox, rating |-> rating, count |-> play_count]>>

\* PopularitiesAccessor.set('Rhythmbox', ...): update the frame with that
\* email, or add one.
Popularities_set(fs, rating, play_count) ==
    IF Rhythmbox \in Emails(fs)
    THEN [i \in 1..Len(fs) |->
             IF fs[i].email = Rhythmbox
             THEN [email |-> Rhythmbox, rating |-> rating, count |-> play_count]
             ELSE fs[i]]
    ELSE Append(fs, [email |-> Rhythmbox, rating |-> rating, count |-> play_count])

Popularities_remove(fs) == SelectSeq(fs, LAMBDA f : f.email # Rhythmbox)

(***************************************************************************)
(* Audio                                                                   *)
(*   frames   the frame set of the loaded tag                              *)
(*   stored   the frames in the file, as of the last audio_file.tag.save() *)
(***************************************************************************)
Audio_init(fs) ==
    LET email == IF fs = <<>> THEN NoEmail
                 ELSE IF Rhythmbox \in Emails(fs) THEN Rhythmbox
                 ELSE fs[1].email
    IN [is_dirty       |-> FALSE,
        rating         |-> IF email = NoEmail THEN 0 ELSE FrameOf(fs, email).rating,
        play_count     |-> IF email = NoEmail THEN 0 ELSE FrameOf(fs, email).count,
        imported_email |-> email,
        frames         |-> fs,
        stored         |-> fs]

Audio_set_rating_always(a, rating, force) ==
    IF a.rating # rating
    THEN [a EXCEPT !.rating = rating, !.is_dirty = TRUE]
    ELSE a

Audio_set_rating(a, rating, force) ==
    IF force
    THEN IF a.rating # rating
         THEN [a EXCEPT !.rating = rating, !.is_dirty = TRUE]
         ELSE a
    ELSE IF a.rating = 0 /\ rating # 0
         THEN [a EXCEPT !.rating = rating, !.is_dirty = TRUE]
         ELSE a

Audio_stars(a) == rating2stars(a.rating)

Audio_set_stars_raw(a, stars, force) == Audio_set_rating(a, stars, force)

\* Defined when stars2rating does not raise.
Audio_set_stars(a, stars, force) == Audio_set_rating(a, stars2rating(stars), force)

Audio_set_play_count(a, count, force) ==
    IF force
    THEN IF a.play_count # count
         THEN [a EXCEPT !.play_count = count, !.is_dirty = TRUE]
         ELSE a
    ELSE IF a.play_count = 0 /\ count # 0
         THEN [a EXCEPT !.play_count = count, !.is_dirty = TRUE]
         ELSE a

\* The result: the object after the call, the returned value, and whether
\* audio_file.tag.save() was executed.
Audio_save_overwrite(a) ==
    IF a.rating # 0
    THEN LET fs == Popularities_set_foreign(a.frames, a.rating, a.play_count)
         IN [a |-> [a EXCEPT !.frames = fs, !.stored = fs, !.is_dirty = FALSE],
             ret |-> TRUE, wrote |-> TRUE]
    ELSE [a |-> a, ret |-> FALSE, wrote |-> FALSE]

Audio_save(a) ==
    IF a.imported_email = Rhythmbox
    THEN IF a.is_dirty
         THEN LET fs == IF a.rating = 0
                        THEN Popularities_remove(a.frames)
                        ELSE Popularities_set(a.frames, a.rating, a.play_count)
              IN [a |-> [a EXCEPT !.frames = fs, !.stored = fs, !.is_dirty = FALSE],
                  ret |-> TRUE, wrote |-> TRUE]
         ELSE [a |-> a, ret |-> FALSE, wrote |-> FALSE]
    ELSE IF a.rating # 0
         THEN LET fs == Popularities_set(a.frames, a.rating, a.play_count)
              IN [a |-> [a EXCEPT !.frames = fs, !.stored = fs],
                  ret |-> TRUE, wrote |-> TRUE]
         ELSE [a |-> a, ret |-> FALSE, wrote |-> FALSE]

(***************************************************************************)
(* Song: an <entry> element, the list of its children [tag, text]          *)
(***************************************************************************)
\* Element.find: the index of the first child with the tag, 0 for None.
find(e, tag) ==
    IF \E i \in 1..Len(e) : e[i].tag = tag
    THEN CHOOSE i \in 1..Len(e) : e[i].tag = tag /\ \A j \in 1..(i - 1) : e[j].tag # tag
    ELSE 0

\* Element.insert(index, child) with the 0-based index k - 1.
insert(e, k, child) == SubSeq(e, 1, k - 1) \o <<child>> \o SubSeq(e, k, Len(e))

remove(e, i) == SubSeq(e, 1, i - 1) \o SubSeq(e, i + 1, Len(e))

Song_get_property(e, prop) == IF find(e, prop) = 0 THEN None ELSE e[find(e, prop)].text

\* Lines 251-255, on the child at index i.
set_text(e, i, value) ==
    IF e[i].text = value
    THEN [e |-> e, ret |-> FALSE]
    ELSE [e |-> [e EXCEPT ![i].text = value], ret |-> TRUE]

Song_set_property_append(e, prop, value, force) ==
    LET i == find(e, prop)
    IN IF i # 0
       THEN IF ~force THEN [e |-> e, ret |-> FALSE]
            ELSE IF value = None THEN [e |-> remove(e, i), ret |-> TRUE]
            ELSE set_text(e, i, value)
       ELSE IF value = None THEN [e |-> e, ret |-> FALSE]
            ELSE set_text(Append(e, [tag |-> prop, text |-> None]), Len(e) + 1, value)

Song_set_property(e, prop, value, force) ==
    LET i == find(e, prop)
    IN IF i # 0
       THEN IF ~force THEN [e |-> e, ret |-> FALSE]
            ELSE IF value = None THEN [e |-> remove(e, i), ret |-> TRUE]
            ELSE set_text(e, i, value)
       ELSE IF value = None THEN [e |-> e, ret |-> FALSE]
            ELSE LET subelement == [tag |-> prop, text |-> None]
                     last_seen  == find(e, "last-seen")
                 IN IF last_seen # 0
                    THEN set_text(insert(e, last_seen + 1, subelement), last_seen + 1, value)
                    ELSE set_text(Append(e, subelement), Len(e) + 1, value)

Song_rating(e) ==
    IF Song_get_property(e, "rating") = None THEN 0 ELSE int(Song_get_property(e, "rating"))

Song_set_rating_zero(e, rating, force) == Song_set_property(e, "rating", str(rating), force)

Song_set_rating(e, rating, force) ==
    Song_set_property(e, "rating", IF rating = 0 THEN None ELSE str(rating), force)

Song_play_count(e) ==
    IF Song_get_property(e, "play-count") = None THEN 0
    ELSE int(Song_get_property(e, "play-count"))

Song_set_play_count(e, count, force) ==
    Song_set_property(e, "play-count", IF count = 0 THEN None ELSE str(count), force)

(***************************************************************************)
(* Inputs                                                                  *)
(***************************************************************************)
MaxFrames == 2

ForeignEmails == {"Banshee", "MusicBee"}

\* POPM ratings are bytes; 100 is a rating no star count converts to.
FrameRatings == {0, 100}

Counts == {0, 13}

RatingArgs == {0, 100}

\* 6 is not a star count.
StarsArgs == {0, 3, 6}

Frames == [email : {Rhythmbox} \cup ForeignEmails, rating : FrameRatings, count : Counts]

RECURSIVE SeqsUpTo(_, _)
SeqsUpTo(S, n) ==
    IF n = 0 THEN {<<>>}
    ELSE LET shorter == SeqsUpTo(S, n - 1)
         IN shorter \cup {Append(q, x) : q \in {r \in shorter : Len(r) = n - 1}, x \in S}

Distinct(q, key(_)) == \A i, j \in 1..Len(q) : key(q[i]) = key(q[j]) => i = j

EmailOf(f) == f.email

TagOf(c) == c.tag

\* The frame sets of a tag: at most one frame for an email.
FrameSets == {fs \in SeqsUpTo(Frames, MaxFrames) : Distinct(fs, EmailOf)}

\* The children of an entry as Rhythmbox writes them: a field at most once,
\* a number in decimal, a zero rating or play count left out.
Children ==
    [tag : {"title"}, text : {<<"T">>}] \cup [tag : {"last-seen"}, text : {<<"9">>}]
    \cup [tag : {"rating"}, text : {str(3), str(5)}]
    \cup [tag : {"play-count"}, text : {str(2), str(13)}]

Elements == {e \in SeqsUpTo(Children, MaxChildren) : Distinct(e, TagOf)}

NoRun == [d \in BOOLEAN |-> [pc |-> "none"]]

NoConfig == [type |-> "none", force |-> FALSE]

(***************************************************************************)
(* SpecRec: calls on one object                                            *)
(***************************************************************************)
Call(op, force, ret, wrote) == [op |-> op, force |-> force, ret |-> ret, wrote |-> wrote]

InitRec ==
    /\ kind \in {"Audio", "Song"}
    /\ IF kind = "Audio"
       THEN /\ \E fs \in FrameSets : audio = Audio_init(fs)
            /\ element = <<>>
       ELSE /\ audio = Audio_init(<<>>)
            /\ element \in Elements
    /\ call = Call("__init__", FALSE, "None", FALSE)
    /\ config = NoConfig
    /\ run = NoRun

AudioSetRating(rating, force) ==
    /\ kind = "Audio"
    /\ audio' = Audio_set_rating(audio, rating, force)
    /\ call' = Call("set_rating", force, "None", FALSE)
    /\ UNCHANGED <<kind, element, config, run>>

AudioSetStars(stars, force) ==
    /\ kind = "Audio"
    /\ IF stars2rating_raises(stars)
       THEN /\ audio' = audio
            /\ call' = Call("set_stars", force, "ValueError", FALSE)
       ELSE /\ audio' = Audio_set_stars(audio, stars, force)
            /\ call' = Call("set_stars", force, "None", FALSE)
    /\ UNCHANGED <<kind, element, config, run>>

AudioSetPlayCount(count, force) ==
    /\ kind = "Audio"
    /\ audio' = Audio_set_play_count(audio, count, force)
    /\ call' = Call("set_play_count", force, "None", FALSE)
    /\ UNCHANGED <<kind, element, config, run>>

AudioSave ==
    /\ kind = "Audio"
    /\ LET r == Audio_save(audio)
       IN /\ audio' = r.a
          /\ call' = Call("save", FALSE, IF r.ret THEN "True" ELSE "False", r.wrote)
    /\ UNCHANGED <<kind, element, config, run>>

SongSetRating(rating, force) ==
    /\ kind = "Song"
    /\ LET r == Song_set_rating(element, rating, force)
       IN /\ element' = r.e
          /\ call' = Call("set_rating", force, IF r.ret THEN "True" ELSE "False", FALSE)
    /\ UNCHANGED <<kind, audio, config, run>>

SongSetPlayCount(count, force) ==
    /\ kind = "Song"
    /\ LET r == Song_set_play_count(element, count, force)
       IN /\ element' = r.e
          /\ call' = Call("set_play_count", force, IF r.ret THEN "True" ELSE "False", FALSE)
    /\ UNCHANGED <<kind, audio, config, run>>

NextRec ==
    \/ \E rating \in RatingArgs, force \in BOOLEAN : AudioSetRating(rating, force)
    \/ \E stars \in StarsArgs, force \in BOOLEAN : AudioSetStars(stars, force)
    \/ \E count \in Counts, force \in BOOLEAN : AudioSetPlayCount(count, force)
    \/ AudioSave
    \/ \E rating \in RatingArgs, force \in BOOLEAN : SongSetRating(rating, force)
    \/ \E count \in Counts, force \in BOOLEAN : SongSetPlayCount(count, force)

SpecRec == InitRec /\ [][NextRec]_vars

(***************************************************************************)
(* Spec: main()                                                            *)
(*   config  the options: type ("import" or "export") and force            *)
(*   run[d]  the execution with dry = d:                                   *)
(*     pc        "loop" in the for loop, "done" after main returned,       *)
(*               "ValueError" when main was ended by the exception         *)
(*     idx       the position of the loop in get_songs()                   *)
(*     songs     the song entries of rbdb.root                             *)
(*     files     for each song the file at song.path: whether eyed3 loads  *)
(*               it, and its POPM frames                                   *)
(*     rres, pres  the results of the last song.set_rating and             *)
(*               song.set_play_count; sres that of the last af.save()      *)
(*     n_saves   the number of calls of rbdb.save                          *)
(***************************************************************************)
Frame(email, rating, count) == [email |-> email, rating |-> rating, count |-> count]

File(status, frames) == [status |-> status, frames |-> frames]

LibraryFiles ==
    {File("missing", <<>>), File("unsupported", <<>>), File("ok", <<>>),
     File("ok", <<Frame(Rhythmbox, 100, 13)>>),
     File("ok", <<Frame("Banshee", 255, 0)>>)}

\* An entry with rating r and play count c; 6 is a rating that is no star
\* count.
Entry(r, c) ==
    <<[tag |-> "title", text |-> <<"T">>], [tag |-> "last-seen", text |-> <<"9">>]>>
    \o (IF r = 0 THEN <<>> ELSE <<[tag |-> "rating", text |-> str(r)]>>)
    \o (IF c = 0 THEN <<>> ELSE <<[tag |-> "play-count", text |-> str(c)]>>)

LibraryEntries == {Entry(0, 0), Entry(0, 2), Entry(3, 2), Entry(6, 0)}

Init ==
    /\ config \in [type : {"import", "export"}, force : BOOLEAN]
    /\ \E songs \in [1..NumSongs -> LibraryEntries], files \in [1..NumSongs -> LibraryFiles] :
          run = [d \in BOOLEAN |->
                    [pc |-> "loop", idx |-> 1, songs |-> songs, files |-> files,
                     n_items |-> 0, n_changed |-> 0,
                     rres |-> FALSE, pres |-> FALSE, sres |-> FALSE, n_saves |-> 0]]
    /\ kind = "none"
    /\ audio = Audio_init(<<>>)
    /\ element = <<>>
    /\ call = Call("none", FALSE, "None", FALSE)

InLoop(d) == run[d].pc = "loop" /\ run[d].idx <= Len(run[d].songs)

\* eyed3.load raises IOError: the except clause continues with the next song.
SkipNotFound(d) ==
    /\ InLoop(d)
    /\ run[d].files[run[d].idx].status = "missing"
    /\ run' = [run EXCEPT ![d].idx = @ + 1]
    /\ UNCHANGED <<config, objvars>>

\* Audio.__init__ raises ValueError, caught in the same way.
SkipUnsupported(d) ==
    /\ InLoop(d)
    /\ run[d].files[run[d].idx].status = "unsupported"
    /\ run' = [run EXCEPT ![d].idx = @ + 1]
    /\ UNCHANGED <<config, objvars>>

ImportSong_rating(d) ==
    /\ InLoop(d)
    /\ run[d].files[run[d].idx].status = "ok"
    /\ config.type = "import"
    /\ LET r    == run[d]
           i    == r.idx
           af   == Audio_init(r.files[i].frames)
           rres == Song_set_rating(r.songs[i], af.rating, config.force)
           pres == Song_set_play_count(rres.e, af.play_count, config.force)
       IN run' = [run EXCEPT ![d] =
                     [r EXCEPT !.idx = i + 1, !.n_items = @ + 1,
                               !.songs[i] = pres.e,
                               !.rres = rres.ret, !.pres = pres.ret,
                               !.n_changed = IF rres.ret \/ pres.ret THEN @ + 1 ELSE @]]
    /\ UNCHANGED <<config, objvars>>

ImportSong(d) ==
    /\ InLoop(d)
    /\ run[d].files[run[d].idx].status = "ok"
    /\ config.type = "import"
    /\ LET r    == run[d]
           i    == r.idx
           af   == Audio_init(r.files[i].frames)
           rres == Song_set_rating(r.songs[i], Audio_stars(af), config.force)
           pres == Song_set_play_count(rres.e, af.play_count, config.force)
       IN IF rating2stars_raises(af.rating)
          THEN run' = [run EXCEPT ![d].pc = "ValueError", ![d].n_items = @ + 1]
          ELSE run' = [run EXCEPT ![d] =
                          [r EXCEPT !.idx = i + 1, !.n_items = @ + 1,
                                    !.songs[i] = pres.e,
                                    !.rres = rres.ret, !.pres = pres.ret,
                                    !.n_changed = IF rres.ret \/ pres.ret THEN @ + 1 ELSE @]]
    /\ UNCHANGED <<config, objvars>>

ExportSong(d) ==
    /\ InLoop(d)
    /\ run[d].files[run[d].idx].status = "ok"
    /\ config.type = "export"
    /\ ~stars2rating_raises(Song_rating(run[d].songs[run[d].idx]))
    /\ LET r   == run[d]
           i   == r.idx
           af0 == Audio_init(r.files[i].frames)
           af1 == Audio_set_stars(af0, Song_rating(r.songs[i]), config.force)
           af2 == Audio_set_play_count(af1, Song_play_count(r.songs[i]), config.force)
           s   == Audio_save(af2)
       IN IF d
          THEN run' = [run EXCEPT ![d] =
                          [r EXCEPT !.idx = i + 1, !.n_items = @ + 1, !.n_changed = @ + 1]]
          ELSE run' = [run EXCEPT ![d] =
                          [r EXCEPT !.idx = i + 1, !.n_items = @ + 1,
                                    !.files[i].frames = s.a.stored,
                                    !.sres = s.ret,
                                    !.n_changed = IF s.ret THEN @ + 1 ELSE @]]
    /\ UNCHANGED <<config, objvars>>

\* stars2rating raises ValueError in af.set_stars, outside the try statement.
ExportRaise(d) ==
    /\ InLoop(d)
    /\ run[d].files[run[d].idx].status = "ok"
    /\ config.type = "export"
    /\ stars2rating_raises(Song_rating(run[d].songs[run[d].idx]))
    /\ run' = [run EXCEPT ![d].pc = "ValueError", ![d].n_items = @ + 1]
    /\ UNCHANGED <<config, objvars>>

Finish_always(d) ==
    /\ run[d].pc = "loop"
    /\ run[d].idx > Len(run[d].songs)
    /\ run' = [run EXCEPT ![d].pc = "done", ![d].n_saves = @ + 1]
    /\ UNCHANGED <<config, objvars>>

\* After the loop: rbdb.save when importing and not dry.
Finish(d) ==
    /\ run[d].pc = "loop"
    /\ run[d].idx > Len(run[d].songs)
    /\ IF config.type = "import" /\ ~d
       THEN run' = [run EXCEPT ![d].pc = "done", ![d].n_saves = @ + 1]
       ELSE run' = [run EXCEPT ![d].pc = "done"]
    /\ UNCHANGED <<config, objvars>>

Next ==
    \/ \E d \in BOOLEAN : SkipNotFound(d)
    \/ \E d \in BOOLEAN : SkipUnsupported(d)
    \/ \E d \in BOOLEAN : ImportSong(d)
    \/ \E d \in BOOLEAN : ExportSong(d)
    \/ \E d \in BOOLEAN : ExportRaise(d)
    \/ \E d \in BOOLEAN : Finish(d)

Spec == Init /\ [][Next]_vars

(***************************************************************************)
(* Properties of the calls on one object (SpecRec)                         *)
(***************************************************************************)
\* The merge rule of the specification.
merge(current, incoming, force) ==
    IF force
    THEN [value |-> incoming, changed |-> incoming # current]
    ELSE IF current = 0 /\ incoming # 0
         THEN [value |-> incoming, changed |-> TRUE]
         ELSE [value |-> current, changed |-> FALSE]

\* C4: every setter of Audio and of Song leaves the value merge(current,
\* incoming, force) gives, and reports a change (the dirty flag set on an
\* Audio, True returned by a Song) exactly when merge says changed.
C4_SettersFollowMerge ==
    [][/\ \A v \in RatingArgs, f \in BOOLEAN :
            AudioSetRating(v, f) =>
                /\ audio'.rating = merge(audio.rating, v, f).value
                /\ audio'.is_dirty = (audio.is_dirty \/ merge(audio.rating, v, f).changed)
                /\ audio'.play_count = audio.play_count
       /\ \A c \in Counts, f \in BOOLEAN :
            AudioSetPlayCount(c, f) =>
                /\ audio'.play_count = merge(audio.play_count, c, f).value
                /\ audio'.is_dirty = (audio.is_dirty \/ merge(audio.play_count, c, f).changed)
                /\ audio'.rating = audio.rating
       /\ \A v \in RatingArgs, f \in BOOLEAN :
            SongSetRating(v, f) =>
                /\ Song_rating(element') = merge(Song_rating(element), v, f).value
                /\ (call'.ret = "True") = merge(Song_rating(element), v, f).changed
                /\ Song_play_count(element') = Song_play_count(element)
       /\ \A c \in Counts, f \in BOOLEAN :
            SongSetPlayCount(c, f) =>
                /\ Song_play_count(element') = merge(Song_play_count(element), c, f).value
                /\ (call'.ret = "True") = merge(Song_play_count(element), c, f).changed
                /\ Song_rating(element') = Song_rating(element)
      ]_vars

\* Song.set_rating without force kept the rating the entry had.
C4_Witness ==
    /\ kind = "Song"
    /\ call.op = "set_rating"
    /\ ~call.force
    /\ call.ret = "False"
    /\ Song_rating(element) = 5

Foreign(fs) == SelectSeq(fs, LAMBDA f : f.email # Rhythmbox)

\* C5: save() leaves every frame of another application as it is; for an
\* Audio loaded from the 'Rhythmbox' frame it writes exactly when dirty (the
\* frame removed for rating 0, else set to rating and play count) and returns
\* whether it wrote; for any other Audio it writes the 'Rhythmbox' frame and
\* returns True exactly when the rating is not 0.
C5_SaveOwnership ==
    [][AudioSave =>
          /\ Foreign(audio'.stored) = Foreign(audio.stored)
          /\ Foreign(audio'.frames) = Foreign(audio.frames)
          /\ (call'.ret = "True") = call'.wrote
          /\ ~call'.wrote => audio'.stored = audio.stored /\ audio'.frames = audio.frames
          /\ call'.wrote => audio'.stored = audio'.frames
          /\ audio.imported_email = Rhythmbox =>
                /\ call'.wrote = audio.is_dirty
                /\ audio.is_dirty /\ audio.rating = 0 => Rhythmbox \notin Emails(audio'.stored)
                /\ audio.is_dirty /\ audio.rating # 0 =>
                      /\ Rhythmbox \in Emails(audio'.stored)
                      /\ FrameOf(audio'.stored, Rhythmbox) =
                             Frame(Rhythmbox, audio.rating, audio.play_count)
          /\ audio.imported_email # Rhythmbox =>
                /\ call'.wrote = (audio.rating # 0)
                /\ audio.rating # 0 =>
                      /\ Rhythmbox \in Emails(audio'.stored)
                      /\ FrameOf(audio'.stored, Rhythmbox) =
                             Frame(Rhythmbox, audio.rating, audio.play_count)
      ]_vars

\* save() added the 'Rhythmbox' frame next to the frame of another
\* application the Audio was loaded from.
C5_Witness ==
    /\ kind = "Audio"
    /\ call.op = "save"
    /\ call.ret = "True"
    /\ audio.imported_email \in ForeignEmails
    /\ Rhythmbox \in Emails(audio.stored)
    /\ Foreign(audio.stored) # <<>>

\* C8: the dirty flag is false after load, stays false over a setter that
\* changes neither rating nor play count, and is false after every save()
\* that wrote, whatever the Audio was loaded from.
C8_DirtyOnlyWhenUnsaved ==
    /\ [](kind = "Audio" /\ call.op = "__init__" => ~audio.is_dirty)
    /\ [][/\ ( /\ kind = "Audio"
               /\ call'.op \in {"set_rating", "set_stars", "set_play_count"}
               /\ audio'.rating = audio.rating
               /\ audio'.play_count = audio.play_count
               /\ ~audio.is_dirty ) => ~audio'.is_dirty
          /\ AudioSave /\ call'.wrote => ~audio'.is_dirty
         ]_vars

\* C9: a field added by _set_property is the child right after 'last-seen',
\* or the last child when there is no 'last-seen'; the other children are
\* the children of before, in their order.
C9_AddedAfterLastSeen ==
    [][/\ \A v \in RatingArgs \ {0}, f \in BOOLEAN :
            SongSetRating(v, f) /\ find(element, "rating") = 0 =>
                LET p == IF find(element, "last-seen") # 0
                         THEN find(element, "last-seen") + 1 ELSE Len(element) + 1
                IN /\ Len(element') = Len(element) + 1
                   /\ element'[p] = [tag |-> "rating", text |-> str(v)]
                   /\ remove(element', p) = element
                   /\ call'.ret = "True"
       /\ \A c \in Counts \ {0}, f \in BOOLEAN :
            SongSetPlayCount(c, f) /\ find(element, "play-count") = 0 =>
                LET p == IF find(element, "last-seen") # 0
                         THEN find(element, "last-seen") + 1 ELSE Len(element) + 1
                IN /\ Len(element') = Len(element) + 1
                   /\ element'[p] = [tag |-> "play-count", text |-> str(c)]
                   /\ remove(element', p) = element
                   /\ call'.ret = "True"
      ]_vars

\* A rating was added between 'last-seen' and a later child.
C9_Witness ==
    /\ kind = "Song"
    /\ call.op = "set_rating"
    /\ ~call.force
    /\ call.ret = "True"
    /\ find(element, "last-seen") # 0
    /\ find(element, "rating") = find(element, "last-seen") + 1
    /\ Len(element) > find(element, "rating")

NumberFields == {"rating", "play-count"}

\* C10: every rating and play-count child holds the decimal form of an
\* integer that is not 0; setting 0 with force removes an existing child and
\* returns True; setting 0 when there is no child adds nothing and returns
\* False.
C10_ZeroNeverStored ==
    /\ [](kind = "Song" =>
            \A i \in 1..Len(element) :
                element[i].tag \in NumberFields =>
                    /\ element[i].text # None
                    /\ int(element[i].text) # 0
                    /\ str(int(element[i].text)) = element[i].text)
    /\ [][/\ \A f \in BOOLEAN :
               SongSetRating(0, f) =>
                   /\ find(element, "rating") # 0 /\ f =>
                         /\ call'.ret = "True"
                         /\ element' = remove(element, find(element, "rating"))
                   /\ find(element, "rating") = 0 =>
                         call'.ret = "False" /\ element' = element
          /\ \A f \in BOOLEAN :
               SongSetPlayCount(0, f) =>
                   /\ find(element, "play-count") # 0 /\ f =>
                         /\ call'.ret = "True"
                         /\ element' = remove(element, find(element, "play-count"))
                   /\ find(element, "play-count") = 0 =>
                         call'.ret = "False" /\ element' = element
         ]_vars

\* A rating child was removed by set_rating(0, force=True) while the
\* play count stayed.
C10_Witness ==
    /\ kind = "Song"
    /\ call.op = "set_rating"
    /\ call.force
    /\ call.ret = "True"
    /\ find(element, "rating") = 0
    /\ find(element, "play-count") # 0

(***************************************************************************)
(* Properties of main() (Spec)                                             *)
(***************************************************************************)
\* The step of run[d] on the song at its position, in the loop.
Processes(d) == InLoop(d) /\ run'[d] # run[d]

OwnFrame(d) == FrameOf(run[d].files[run[d].idx].frames, Rhythmbox)

\* A song without rating child whose file has a 'Rhythmbox' frame with
\* rating and play count not 0, in an import without force.
C1_Case(d) ==
    /\ InLoop(d)
    /\ config.type = "import"
    /\ ~config.force
    /\ find(run[d].songs[run[d].idx], "rating") = 0
    /\ run[d].files[run[d].idx].status = "ok"
    /\ Rhythmbox \in Emails(run[d].files[run[d].idx].frames)
    /\ OwnFrame(d).rating # 0
    /\ OwnFrame(d).count # 0

\* C1 as stated: the rating child holds the rating of the file on the 0-255
\* scale, the play-count child its play count, and n_changed grows by 1.
C1_RatingCopied ==
    [][\A d \in BOOLEAN :
          C1_Case(d) /\ Processes(d) =>
              LET i == run[d].idx
              IN /\ Song_get_property(run'[d].songs[i], "rating") = str(OwnFrame(d).rating)
                 /\ Song_get_property(run'[d].songs[i], "play-count") = str(OwnFrame(d).count)
                 /\ run'[d].n_changed = run[d].n_changed + 1
      ]_vars

\* C1, amended: the rating child holds the number of stars of the rating of
\* the file, the play-count child holds the play count of the file when the
\* entry had no play-count child and is left as it was otherwise, and
\* n_changed grows by 1.
C1_StarsImported ==
    [][\A d \in BOOLEAN :
          C1_Case(d) /\ Processes(d) =>
              LET i == run[d].idx
                  e == run[d].songs[i]
              IN /\ Song_get_property(run'[d].songs[i], "rating")
                        = str(rating2stars(OwnFrame(d).rating))
                 /\ Song_get_property(run'[d].songs[i], "play-count")
                        = IF find(e, "play-count") = 0 THEN str(OwnFrame(d).count)
                          ELSE Song_get_property(e, "play-count")
                 /\ run'[d].n_changed = run[d].n_changed + 1
                 /\ run'[d].n_items = run[d].n_items + 1
      ]_vars

\* The import without force gave the first song, which had no rating, the
\* 3 stars of the rating 100 of its file, and the play count 13.
C1_Witness ==
    /\ config.type = "import"
    /\ ~config.force
    /\ run[FALSE].idx > 1
    /\ run[FALSE].rres
    /\ run[FALSE].pres
    /\ run[FALSE].n_changed = 1
    /\ run[FALSE].files[1].frames = <<Frame(Rhythmbox, 100, 13)>>
    /\ Song_get_property(run[FALSE].songs[1], "rating") = <<"3">>
    /\ Song_get_property(run[FALSE].songs[1], "play-count") = <<"1", "3">>

\* A song with a rating that is not 0 whose file has no POPM frame, in an
\* export that is not dry.
C2_Case ==
    /\ InLoop(FALSE)
    /\ config.type = "export"
    /\ Song_rating(run[FALSE].songs[run[FALSE].idx]) \in 1..255
    /\ run[FALSE].files[run[FALSE].idx] = File("ok", <<>>)

\* C2 as stated: the file gains a 'Rhythmbox' frame with the rating of the
\* song, and save() returns True.
C2_RatingExported ==
    [][C2_Case /\ Processes(FALSE) =>
          LET i == run[FALSE].idx
              R == Song_rating(run[FALSE].songs[i])
          IN /\ run'[FALSE].pc = "loop"
             /\ Emails(run'[FALSE].files[i].frames) = {Rhythmbox}
             /\ FrameOf(run'[FALSE].files[i].frames, Rhythmbox).rating = R
             /\ run'[FALSE].sres
      ]_vars

\* C2, amended: the rating of a song is a number of stars.  For a rating R
\* in 1..5 the file gains a 'Rhythmbox' frame with the rating
\* stars2rating(R) and the play count of the song, and save() returns True.
\* For a rating above 5 stars2rating raises ValueError in set_stars: the
\* file gains no frame and save() is not called.
C2_StarsExported ==
    [][C2_Case /\ Processes(FALSE) =>
          LET i == run[FALSE].idx
              R == Song_rating(run[FALSE].songs[i])
          IN IF R \in 1..5
             THEN /\ run'[FALSE].pc = "loop"
                  /\ run'[FALSE].files[i].frames =
                         <<Frame(Rhythmbox, stars2rating(R),
                                 Song_play_count(run[FALSE].songs[i]))>>
                  /\ run'[FALSE].sres
                  /\ run'[FALSE].n_changed = run[FALSE].n_changed + 1
             ELSE /\ run'[FALSE].pc = "ValueError"
                  /\ run'[FALSE].files = run[FALSE].files
                  /\ run'[FALSE].sres = run[FALSE].sres
                  /\ run'[FALSE].n_changed = run[FALSE].n_changed
      ]_vars

\* The export gave the file of the first song, rated 3 stars, the frame
\* with rating 128.
C2_Witness ==
    /\ config.type = "export"
    /\ run[FALSE].idx > 1
    /\ run[FALSE].sres
    /\ Song_rating(run[FALSE].songs[1]) = 3
    /\ run[TRUE].files[1] = File("ok", <<>>)
    /\ run[FALSE].files[1].frames = <<Frame(Rhythmbox, 128, 2)>>

\* C3: the dry and the not dry pass over the same library and files, with
\* the same type and force, end with the same n_changed.
C3_DrySameCount ==
    run[TRUE].pc = "done" /\ run[FALSE].pc = "done"
        => run[TRUE].n_changed = run[FALSE].n_changed

Loaded(d) == {i \in 1..(run[d].idx - 1) : run[d].files[i].status = "ok"}

\* C6: no pass is ended by an exception of one song: a pass in the loop or
\* after it has counted in n_items exactly the songs before its position
\* whose file was loaded, and a pass never stops before the end of the loop.
C6_PassNeverAborted ==
    \A d \in BOOLEAN :
        /\ run[d].pc \in {"loop", "done"}
        /\ run[d].n_items = Cardinality(Loaded(d))
        /\ run[d].pc = "done" => run[d].idx = Len(run[d].songs) + 1

\* C7: rbdb.save is called once, after the loop, by an import that is not
\* dry, and never by another pass; an export changes no song entry.
C7_DatabaseSavedOnceAtEnd ==
    /\ [](\A d \in BOOLEAN :
            /\ run[d].n_saves \in {0, 1}
            /\ run[d].n_saves = 1 =>
                  /\ config.type = "import" /\ ~d
                  /\ run[d].pc = "done"
                  /\ run[d].idx = Len(run[d].songs) + 1
            /\ run[d].pc = "done" /\ config.type = "import" /\ ~d => run[d].n_saves = 1)
    /\ [][\A d \in BOOLEAN :
             /\ config.type = "export" => run'[d].songs = run[d].songs
             /\ run'[d].n_saves # run[d].n_saves => run'[d].pc = "done" /\ run[d].pc = "loop"
         ]_vars

\* The import that is not dry saved the library after it changed a song,
\* and the dry import ended without saving.
C7_Witness ==
    /\ config.type = "import"
    /\ run[FALSE].pc = "done"
    /\ run[FALSE].n_saves = 1
    /\ run[FALSE].n_changed > 0
    /\ run[TRUE].pc = "done"
    /\ run[TRUE].n_saves = 0

====
